---- MODULE Spec2Model ----
(***************************************************************************)
(* TapeProcessor (src/audio/wasm-dsp/src/lib.rs): a stateful per-sample    *)
(* tape chain (drive + tanh saturation, one-pole lowpass, tanh limiter)    *)
(* applied in place to buffers of f32 samples.                             *)
(*                                                                         *)
(* f32 is modelled as a reduced-precision binary format with the same      *)
(* structure: NaN, +Inf, -Inf and finite values.  A finite value is an     *)
(* integer number n of quanta, standing for n / Scale; every arithmetic    *)
(* result is rounded to the nearest quantum (ties to even), and a result   *)
(* beyond MaxFinite overflows to an infinity.  One quantum plays the part  *)
(* of f32's smallest subnormal (2^-149), Scale quanta the part of 1.0.     *)
(***************************************************************************)
EXTENDS Integers, Sequences, FiniteSets

\* quanta per unit: the value 1.0 is Scale quanta
Scale == 100
\* the largest finite value is FiniteRange units (the part of f32::MAX)
FiniteRange == 1000
\* samples handed to one instance between two constructions
MaxStream == 3
\* process calls made on one instance between two constructions
MaxCalls == 3
\* the same two caps when two instances run side by side
TwinStream == 2
TwinCalls == 2
\* the same two caps where termination is checked
LiveStream == 3
LiveCalls == 2

MaxFinite == FiniteRange * Scale

\* the TapeProcessor instances alive in the program
Inst == {1, 2}

VARIABLES
    filter_state,   \* [Inst -> f32]   the struct's only field
    pc,             \* [Inst -> {"idle", "loop"}]  whether process is running
    data,           \* [Inst -> Seq(f32)]  the buffer borrowed by process
    i,              \* [Inst -> Nat]   elements the iterator has yielded
    steps,          \* [Inst -> Nat]   process_sample calls made by this call
    call_in,        \* [Inst -> Seq(f32)]  the buffer as it was handed in
    call_s0,        \* [Inst -> f32]   filter_state when process was entered
    hist,           \* [Inst -> Seq(record)]  completed calls since new()
    ptr             \* [Inst -> {"unset", "null"}]  what get_buffer_ptr returned
                    \*   to the caller since the last call of process

vars == <<filter_state, pc, data, i, steps, call_in, call_s0, hist, ptr>>

----------------------------------------------------------------------------
(* f32 values and arithmetic.  The operations are functions: like the     *)
(* machine's, they take evaluated operands.                               *)

\* the values of the type
F32 == [k : {"nan", "inf", "num"}, v : Int]

NaN == [k |-> "nan", v |-> 0]
Inf(sg) == [k |-> "inf", v |-> sg]
Num(n) == [k |-> "num", v |-> n]

Abs(n) == IF n < 0 THEN -n ELSE n
Sign(x) == IF x.v > 0 THEN 1 ELSE IF x.v < 0 THEN -1 ELSE 0

IsNaN(x) == x.k = "nan"
IsFinite(x) == x.k = "num"
IsZero(x) == x.k = "num" /\ x.v = 0

\* p / q (q > 0) rounded to the nearest integer, ties to even
RoundDiv[p \in Int, q \in Int] ==
    LET n == Abs(p)
        fl == n \div q
        r == n % q
        m == IF 2 * r > q \/ (2 * r = q /\ fl % 2 = 1) THEN fl + 1 ELSE fl
    IN  IF p < 0 THEN -m ELSE m

\* a rounded result: beyond the largest finite value it is an infinity
Fin[n \in Int] ==
    IF n > MaxFinite THEN Inf(1)
    ELSE IF n < -MaxFinite THEN Inf(-1)
    ELSE Num(n)

\* the f32 nearest to the decimal literal num / den
Lit(num, den) == Num(RoundDiv[num * Scale, den])

FMul[x \in F32, y \in F32] ==
    IF IsNaN(x) \/ IsNaN(y) THEN NaN
    ELSE IF x.k = "inf" \/ y.k = "inf"
         THEN IF Sign(x) * Sign(y) = 0 THEN NaN ELSE Inf(Sign(x) * Sign(y))
    ELSE Fin[RoundDiv[x.v * y.v, Scale]]

FAdd[x \in F32, y \in F32] ==
    IF IsNaN(x) \/ IsNaN(y) THEN NaN
    ELSE IF x.k = "inf" /\ y.k = "inf"
         THEN IF x.v = y.v THEN x ELSE NaN
    ELSE IF x.k = "inf" THEN x
    ELSE IF y.k = "inf" THEN y
    ELSE Fin[x.v + y.v]

FNeg[x \in F32] == IF IsNaN(x) THEN NaN ELSE [k |-> x.k, v |-> -x.v]

FSub[x \in F32, y \in F32] == FAdd[x, FNeg[y]]

\* f32::tanh: NaN for NaN, +-1 for +-Inf; on finite x the odd, monotone
\* Lambert approximant x (15 + x^2) / (15 + 6 x^2) rounded to a quantum,
\* which returns exactly +-1.0 once |x| is large, as f32 tanh does
Tanh[x \in F32] ==
    IF IsNaN(x) THEN NaN
    ELSE IF x.k = "inf" THEN Num(x.v * Scale)
    ELSE LET n == Abs(x.v)
             t == IF n >= 3 * Scale THEN Scale
                  ELSE RoundDiv[n * (15 * Scale * Scale + n * n),
                                15 * Scale * Scale + 6 * n * n]
             m == IF t > Scale THEN Scale ELSE t
         IN  Num(IF x.v < 0 THEN -m ELSE m)

----------------------------------------------------------------------------
(* The literals of process_sample *)

Zero == Num(0)
One == Lit(1, 1)
Drive == Lit(15, 10)
a == Lit(19, 100)
Gain == Lit(9, 10)

----------------------------------------------------------------------------
(* process_sample: one sample through the tape chain.  Returns the new     *)
(* filter_state and the value written back into the buffer.               *)

\* a slip that adds the coefficient instead of scaling by it
process_sample_plus(s, input) ==
    LET driven == FMul[input, Drive]
        saturated == Tanh[driven]
        fs == FAdd[FAdd[a, saturated], FMul[FSub[One, a], s]]
        limited == FMul[fs, Gain]
    IN  [filter_state |-> fs, out |-> Tanh[limited]]

\* the saturation stage left out: the driven signal goes to the filter
process_sample_nosat(s, input) ==
    LET driven == FMul[input, Drive]
        fs == FAdd[FMul[a, driven], FMul[FSub[One, a], s]]
        limited == FMul[fs, Gain]
    IN  [filter_state |-> fs, out |-> Tanh[limited]]

\* the filter coefficients exchanged
process_sample_swapped(s, input) ==
    LET driven == FMul[input, Drive]
        saturated == Tanh[driven]
        fs == FAdd[FMul[FSub[One, a], saturated], FMul[a, s]]
        limited == FMul[fs, Gain]
    IN  [filter_state |-> fs, out |-> Tanh[limited]]

\* a guard that restarts the filter from 0.0 when its state is NaN
process_sample_guard(s, input) ==
    LET driven == FMul[input, Drive]
        saturated == Tanh[driven]
        prev == IF IsNaN(s) THEN Zero ELSE s
        fs == FAdd[FMul[a, saturated], FMul[FSub[One, a], prev]]
        limited == FMul[fs, Gain]
    IN  [filter_state |-> fs, out |-> Tanh[limited]]

\* the lowpass fed with the negated previous state
process_sample_neg(s, input) ==
    LET driven == FMul[input, Drive]
        saturated == Tanh[driven]
        fs == FSub[FMul[a, saturated], FMul[FSub[One, a], s]]
        limited == FMul[fs, Gain]
    IN  [filter_state |-> fs, out |-> Tanh[limited]]

process_sample(s, input) ==
    LET driven == FMul[input, Drive]
        saturated == Tanh[driven]
        fs == FAdd[FMul[a, saturated], FMul[FSub[One, a], s]]
        limited == FMul[fs, Gain]
    IN  [filter_state |-> fs, out |-> Tanh[limited]]

\* one whole call of process as a function: the loop over the buffer, from
\* filter_state s; returns the final filter_state and the buffer contents
process_buffer[s \in F32, buf \in Seq(F32)] ==
    IF buf = <<>> THEN [filter_state |-> s, out |-> <<>>]
    ELSE LET r == process_sample(s, Head(buf))
             rest == process_buffer[r.filter_state, Tail(buf)]
         IN  [filter_state |-> rest.filter_state, out |-> <<r.out>> \o rest.out]

----------------------------------------------------------------------------
(* History helpers *)

RECURSIVE ConcatIn(_, _, _)
ConcatIn(h, j, k) == IF j > k THEN <<>> ELSE h[j].in \o ConcatIn(h, j + 1, k)

RECURSIVE ConcatOut(_, _, _)
ConcatOut(h, j, k) == IF j > k THEN <<>> ELSE h[j].out \o ConcatOut(h, j + 1, k)

\* the samples instance p has consumed since new(), and what it wrote back
StreamIn(p) ==
    ConcatIn(hist[p], 1, Len(hist[p]))
        \o (IF pc[p] = "loop" THEN SubSeq(call_in[p], 1, i[p]) ELSE <<>>)

StreamOut(p) ==
    ConcatOut(hist[p], 1, Len(hist[p]))
        \o (IF pc[p] = "loop" THEN SubSeq(data[p], 1, i[p]) ELSE <<>>)

\* samples handed to instance p since new(), the running call's included
Handed(p) ==
    Len(ConcatIn(hist[p], 1, Len(hist[p])))
        + (IF pc[p] = "loop" THEN Len(call_in[p]) ELSE 0)

----------------------------------------------------------------------------
(* Operations *)

Init ==
    /\ filter_state = [p \in Inst |-> Zero]
    /\ pc = [p \in Inst |-> "idle"]
    /\ data = [p \in Inst |-> <<>>]
    /\ i = [p \in Inst |-> 0]
    /\ steps = [p \in Inst |-> 0]
    /\ call_in = [p \in Inst |-> <<>>]
    /\ call_s0 = [p \in Inst |-> Zero]
    /\ hist = [p \in Inst |-> <<>>]
    /\ ptr = [p \in Inst |-> "unset"]

\* a constructor that starts the filter at 1.0
new_unit(p) ==
    /\ pc[p] = "idle"
    /\ filter_state' = [filter_state EXCEPT ![p] = One]
    /\ data' = [data EXCEPT ![p] = <<>>]
    /\ i' = [i EXCEPT ![p] = 0]
    /\ steps' = [steps EXCEPT ![p] = 0]
    /\ call_in' = [call_in EXCEPT ![p] = <<>>]
    /\ call_s0' = [call_s0 EXCEPT ![p] = Zero]
    /\ hist' = [hist EXCEPT ![p] = <<>>]
    /\ ptr' = [ptr EXCEPT ![p] = "unset"]
    /\ UNCHANGED pc

\* TapeProcessor::new(): slot p now holds a freshly constructed instance
new(p) ==
    /\ pc[p] = "idle"
    /\ filter_state' = [filter_state EXCEPT ![p] = Zero]
    /\ data' = [data EXCEPT ![p] = <<>>]
    /\ i' = [i EXCEPT ![p] = 0]
    /\ steps' = [steps EXCEPT ![p] = 0]
    /\ call_in' = [call_in EXCEPT ![p] = <<>>]
    /\ call_s0' = [call_s0 EXCEPT ![p] = Zero]
    /\ hist' = [hist EXCEPT ![p] = <<>>]
    /\ ptr' = [ptr EXCEPT ![p] = "unset"]
    /\ UNCHANGED pc

\* process entered with a filter that starts over for each buffer
process_call_reset(p, buf) ==
    /\ pc[p] = "idle"
    /\ pc' = [pc EXCEPT ![p] = "loop"]
    /\ filter_state' = [filter_state EXCEPT ![p] = Zero]
    /\ data' = [data EXCEPT ![p] = buf]
    /\ i' = [i EXCEPT ![p] = 0]
    /\ steps' = [steps EXCEPT ![p] = 0]
    /\ call_in' = [call_in EXCEPT ![p] = buf]
    /\ call_s0' = [call_s0 EXCEPT ![p] = filter_state[p]]
    /\ ptr' = [ptr EXCEPT ![p] = "unset"]
    /\ UNCHANGED hist

\* process(&mut self, data) is entered: data.iter_mut() is created
process_call(p, buf) ==
    /\ pc[p] = "idle"
    /\ pc' = [pc EXCEPT ![p] = "loop"]
    /\ data' = [data EXCEPT ![p] = buf]
    /\ i' = [i EXCEPT ![p] = 0]
    /\ steps' = [steps EXCEPT ![p] = 0]
    /\ call_in' = [call_in EXCEPT ![p] = buf]
    /\ call_s0' = [call_s0 EXCEPT ![p] = filter_state[p]]
    /\ ptr' = [ptr EXCEPT ![p] = "unset"]
    /\ UNCHANGED <<filter_state, hist>>

\* a loop body that reads a filter state shared by all instances
process_step_shared(p) ==
    /\ pc[p] = "loop"
    /\ i[p] < Len(data[p])
    /\ LET r == process_sample(filter_state[1], data[p][i[p] + 1])
       IN  /\ filter_state' = [q \in Inst |-> r.filter_state]
           /\ data' = [data EXCEPT ![p][i[p] + 1] = r.out]
    /\ i' = [i EXCEPT ![p] = i[p] + 1]
    /\ steps' = [steps EXCEPT ![p] = steps[p] + 1]
    /\ UNCHANGED <<pc, call_in, call_s0, hist, ptr>>

\* a loop body that retries an element until its result is not NaN
process_step_retry(p) ==
    /\ pc[p] = "loop"
    /\ i[p] < Len(data[p])
    /\ LET r == process_sample(filter_state[p], data[p][i[p] + 1])
       IN  /\ filter_state' = [filter_state EXCEPT ![p] = r.filter_state]
           /\ data' = [data EXCEPT ![p][i[p] + 1] = r.out]
           /\ i' = [i EXCEPT ![p] = IF IsNaN(r.out) THEN i[p] ELSE i[p] + 1]
    /\ steps' = [steps EXCEPT ![p] = IF steps[p] < MaxStream THEN steps[p] + 1 ELSE steps[p]]
    /\ UNCHANGED <<pc, call_in, call_s0, hist, ptr>>

\* one iteration of the for loop: *sample = self.process_sample(*sample)
process_step(p) ==
    /\ pc[p] = "loop"
    /\ i[p] < Len(data[p])
    /\ \E r \in {process_sample(filter_state[p], data[p][i[p] + 1])} :
           /\ filter_state' = [filter_state EXCEPT ![p] = r.filter_state]
           /\ data' = [data EXCEPT ![p][i[p] + 1] = r.out]
    /\ i' = [i EXCEPT ![p] = i[p] + 1]
    /\ steps' = [steps EXCEPT ![p] = steps[p] + 1]
    /\ UNCHANGED <<pc, call_in, call_s0, hist, ptr>>

\* process returning with the filter cleared at the end of the buffer
process_return_clear(p) ==
    /\ pc[p] = "loop"
    /\ i[p] = Len(data[p])
    /\ pc' = [pc EXCEPT ![p] = "idle"]
    /\ filter_state' = [filter_state EXCEPT ![p] = Zero]
    /\ hist' = [hist EXCEPT ![p] = Append(hist[p],
                   [s0 |-> call_s0[p], in |-> call_in[p], out |-> data[p],
                    s1 |-> Zero, steps |-> steps[p]])]
    /\ UNCHANGED <<data, i, steps, call_in, call_s0, ptr>>

\* the iterator is exhausted: process returns, the borrow of data ends
process_return(p) ==
    /\ pc[p] = "loop"
    /\ i[p] = Len(data[p])
    /\ pc' = [pc EXCEPT ![p] = "idle"]
    /\ hist' = [hist EXCEPT ![p] = Append(hist[p],
                   [s0 |-> call_s0[p], in |-> call_in[p], out |-> data[p],
                    s1 |-> filter_state[p], steps |-> steps[p]])]
    /\ UNCHANGED <<filter_state, data, i, steps, call_in, call_s0, ptr>>

\* get_buffer_ptr(&self): returns the null pointer
get_buffer_ptr(p) ==
    /\ pc[p] = "idle"
    /\ ptr' = [ptr EXCEPT ![p] = "null"]
    /\ UNCHANGED <<filter_state, pc, data, i, steps, call_in, call_s0, hist>>

----------------------------------------------------------------------------
(* Inputs and specifications *)

\* sample values a caller writes into a buffer: NaN, -Inf, zero, the
\* smallest positive value, minus twice it, 1.0, and the largest finite
\* value (whose drive stage overflows to +Inf)
Samples == {NaN, Inf(-1), Zero, Num(1), Num(-2), One, Num(MaxFinite)}

TwinSamples == {One, Num(-(Scale \div 2))}

SeqsUpTo(S, n) == UNION {[1..m -> S] : m \in 0..n}

\* the instance a single caller drives
Driven == {1}

\* the caller's choice of the next buffer for instance p, within the caps
Call(p, stream, calls, S) ==
    /\ Len(hist[p]) < calls
    /\ \E buf \in SeqsUpTo(S, stream - Handed(p)) : process_call(p, buf)

Next ==
    \E p \in Driven :
        \/ new(p)
        \/ Call(p, MaxStream, MaxCalls, Samples)
        \/ process_step(p)
        \/ process_return(p)
        \/ get_buffer_ptr(p)

Spec == Init /\ [][Next]_vars

LiveNext ==
    \E p \in Driven :
        \/ new(p)
        \/ Call(p, LiveStream, LiveCalls, Samples)
        \/ process_step(p)
        \/ process_return(p)
        \/ get_buffer_ptr(p)

\* a call of process runs to completion: process is straight-line code on
\* its caller's thread, so the loop body and the return are taken as long
\* as they are possible
FairSpec ==
    /\ Init
    /\ [][LiveNext]_vars
    /\ \A p \in Driven : WF_vars(process_step(p)) /\ WF_vars(process_return(p))

\* two instances driven side by side, their calls of new and process
\* interleaved at sample steps
TwinNext ==
    \E p \in Inst :
        \/ new(p)
        \/ Call(p, TwinStream, TwinCalls, TwinSamples)
        \/ process_step(p)
        \/ process_return(p)

TwinSpec == Init /\ [][TwinNext]_vars

----------------------------------------------------------------------------
(* Predicates on sample sequences *)

AllFinite(sq) == \A n \in 1..Len(sq) : IsFinite(sq[n])
AllZero(sq) == \A n \in 1..Len(sq) : IsZero(sq[n])
NoNaN(sq) == \A n \in 1..Len(sq) : ~IsNaN(sq[n])
AllNaN(sq) == \A n \in 1..Len(sq) : IsNaN(sq[n])

\* strictly inside (-1, 1)
InOpenUnit(x) == IsFinite(x) /\ Abs(x.v) < One.v

----------------------------------------------------------------------------
(* Claims *)

\* C1 (buffer-split continuity): whenever a process call returns, for every
\* run of consecutive calls j..k of the instance that ends with it, whatever
\* their lengths (empty and single-sample buffers included), the
\* concatenated outputs and the final filter_state are what one process
\* call on the concatenated input yields from the filter_state that call j
\* started with.
C1_SplitContinuity ==
    [][\A p \in Inst :
         (pc[p] = "loop" /\ pc'[p] = "idle") =>
           \A k \in {Len(hist'[p])} : \A j \in 1..k :
             process_buffer[hist'[p][j].s0, ConcatIn(hist'[p], j, k)]
                 = [filter_state |-> filter_state'[p],
                    out |-> ConcatOut(hist'[p], j, k)]]_vars

\* a stream cut into an empty, a one-sample and a longer buffer, the first
\* cut made at a non-zero filter_state
C1_Witness ==
    \E p \in Inst :
        /\ Len(hist[p]) = 3
        /\ Len(hist[p][1].in) = 1
        /\ Len(hist[p][2].in) = 0
        /\ Len(hist[p][3].in) = 2
        /\ ~IsZero(hist[p][2].s0)
        /\ IsFinite(hist[p][3].s1)
        /\ ~IsZero(hist[p][3].s1)

\* C2 (boundedness): while every sample an instance has consumed since
\* new() is finite, every sample it has written back lies strictly inside
\* the open interval (-1, 1).
C2_Bounded ==
    \A p \in Inst :
        AllFinite(StreamIn(p))
            => \A n \in 1..Len(StreamOut(p)) : InOpenUnit(StreamOut(p)[n])

\* the largest finite input (whose drive stage overflows) has been processed
\* three times over and the outputs are non-zero
C2_Witness ==
    \E p \in Inst :
        /\ StreamIn(p) = <<Num(MaxFinite), Num(MaxFinite), Num(MaxFinite)>>
        /\ \A n \in 1..3 : StreamOut(p)[n].v > 0

\* C4 (zero-input steady state): an instance that has consumed only zero
\* samples since new() has filter_state 0 and has written back only zeros,
\* in any number of calls.
C4_ZeroSteady ==
    \A p \in Inst :
        AllZero(StreamIn(p))
            => /\ IsZero(filter_state[p])
               /\ AllZero(StreamOut(p))
               /\ pc[p] = "loop" => AllZero(SubSeq(data[p], 1, i[p]))

\* three zero samples consumed in two calls
C4_Witness ==
    \E p \in Inst :
        /\ Len(hist[p]) = 2
        /\ hist[p][1].in = <<Zero>>
        /\ hist[p][2].in = <<Zero, Zero>>
        /\ hist[p][2].out = <<Zero, Zero>>

\* C7 (NaN poisoning is permanent): once an instance has consumed a NaN
\* sample, filter_state is NaN and every output from that sample on is NaN,
\* whatever the later inputs and however many calls follow.
C7_NaNPoison ==
    \A p \in Inst : \A n \in 1..Len(StreamIn(p)) :
        IsNaN(StreamIn(p)[n])
            => /\ IsNaN(filter_state[p])
               /\ AllNaN(SubSeq(StreamOut(p), n, Len(StreamOut(p))))

\* a NaN, then in later calls an infinite and a finite non-zero sample
C7_Witness ==
    \E p \in Inst :
        /\ Len(hist[p]) = 3
        /\ hist[p][1].in = <<NaN>>
        /\ hist[p][2].in = <<Inf(-1)>>
        /\ hist[p][3].in = <<One>>
        /\ IsNaN(hist[p][3].out[1])

\* C10 (state range): while no sample an instance has consumed since new()
\* is NaN (finite and infinite samples allowed), filter_state lies in
\* [-1, 1] and no output exceeds tanh(0.9) in magnitude.
C10_StateRange ==
    \A p \in Inst :
        NoNaN(StreamIn(p))
            => /\ IsFinite(filter_state[p])
               /\ Abs(filter_state[p].v) <= One.v
               /\ \A n \in 1..Len(StreamOut(p)) :
                    /\ IsFinite(StreamOut(p)[n])
                    /\ Abs(StreamOut(p)[n].v) <= Tanh[Gain].v

\* infinite and overflowing samples have driven the state away from zero
C10_Witness ==
    \E p \in Inst :
        /\ StreamIn(p) = <<Inf(-1), Inf(-1), Num(MaxFinite)>>
        /\ filter_state[p].v < 0

\* instance p runs one iteration of the loop of process in this step
LoopStep(p) ==
    /\ pc[p] = "loop"
    /\ pc'[p] = "loop"
    /\ <<filter_state[p], data[p], i[p], steps[p]>>
           # <<filter_state'[p], data'[p], i'[p], steps'[p]>>

\* C3 (per-sample transform): process starts at index 0 and each loop
\* iteration takes the next index i, sets filter_state to
\* s' = 0.19 * tanh(1.5 * x_i) + 0.81 * s and overwrites element i with
\* tanh(0.9 * s'); a fresh instance given [0.0] yields [0.0] and keeps
\* filter_state 0.0, and given [1.0] next yields
\* tanh(0.19 * tanh(1.5) * 0.9).
C3_PerSample ==
    /\ [][\A p \in Inst :
            /\ (pc[p] = "idle" /\ pc'[p] = "loop") => i'[p] = 0
            /\ LoopStep(p) =>
                 LET x == data[p][i[p] + 1]
                     s == filter_state[p]
                     s1 == FAdd[FMul[Lit(19, 100), Tanh[FMul[Lit(15, 10), x]]],
                                FMul[Lit(81, 100), s]]
                 IN  /\ i[p] < Len(data[p])
                     /\ i'[p] = i[p] + 1
                     /\ filter_state'[p] = s1
                     /\ data'[p] = [data[p] EXCEPT ![i[p] + 1] =
                                        Tanh[FMul[Lit(9, 10), s1]]]]_vars
    /\ [](\A p \in Inst :
            /\ (Len(hist[p]) >= 1 /\ hist[p][1].in = <<Zero>>)
                 => hist[p][1].out = <<Zero>> /\ hist[p][1].s1 = Zero
            /\ (Len(hist[p]) >= 2 /\ hist[p][1].in = <<Zero>>
                    /\ hist[p][2].in = <<Lit(1, 1)>>)
                 => hist[p][2].out =
                      <<Tanh[FMul[FMul[Lit(19, 100), Tanh[Lit(15, 10)]],
                                  Lit(9, 10)]]>>)

\* the concrete example has run: [0.0], then [1.0] with a non-zero result
C3_Witness ==
    \E p \in Inst :
        /\ Len(hist[p]) = 2
        /\ hist[p][1].in = <<Zero>>
        /\ hist[p][2].in = <<One>>
        /\ hist[p][2].out[1].v > 0
        /\ hist[p][2].s1 = FMul[a, Tanh[Drive]]

\* instance p has consumed one non-zero finite sample and then only zeros,
\* and consumes one more zero in this step
DecayStep(p) ==
    /\ LoopStep(p)
    /\ IsZero(data[p][i[p] + 1])
    /\ Len(StreamIn(p)) >= 1
    /\ IsFinite(Head(StreamIn(p)))
    /\ ~IsZero(Head(StreamIn(p)))
    /\ AllZero(Tail(StreamIn(p)))

\* C5 as stated (filter memory decay): after one non-zero finite sample,
\* each zero sample multiplies filter_state by 0.81 and the magnitudes of
\* filter_state and of the output strictly decrease, the sign being kept.
C5_StrictDecay ==
    [][\A p \in Inst :
         DecayStep(p) =>
           LET s == filter_state[p]
               o == StreamOut(p)[Len(StreamOut(p))]
               o1 == data'[p][i[p] + 1]
           IN  /\ filter_state'[p] = FMul[Lit(81, 100), s]
               /\ Abs(filter_state'[p].v) < Abs(s.v)
               /\ Sign(filter_state'[p]) = Sign(s)
               /\ Abs(o1.v) < Abs(o.v)]_vars

\* C5 as amended: each zero sample replaces filter_state by 0.81 * s rounded
\* to the format; its magnitude and (tanh being monotone) the output's never
\* grow and the sign is kept; the magnitude strictly decreases while it is at least three times
\* the smallest representable magnitude, below that 0.81 * s rounds back to
\* s (or filter_state is 0 from the impulse on) and it stays where it is.
C5_Decay ==
    [][\A p \in Inst :
         DecayStep(p) =>
           LET s == filter_state[p]
               o == StreamOut(p)[Len(StreamOut(p))]
               o1 == data'[p][i[p] + 1]
           IN  /\ filter_state'[p] = FMul[Lit(81, 100), s]
               /\ Abs(filter_state'[p].v) <= Abs(s.v)
               /\ Abs(s.v) >= 3 => Abs(filter_state'[p].v) < Abs(s.v)
               /\ Abs(s.v) < 3 => filter_state'[p] = s
               /\ Sign(filter_state'[p]) = Sign(s)
               /\ Abs(o1.v) <= Abs(o.v)
               /\ Sign(o1) = Sign(filter_state'[p])]_vars

\* an impulse of 1.0 and two zeros: the state has decayed twice, strictly
C5_Witness ==
    \E p \in Inst :
        /\ StreamIn(p) = <<One, Zero, Zero>>
        /\ filter_state[p].v > 3
        /\ filter_state[p].v < FMul[a, Tanh[Drive]].v
        /\ StreamOut(p)[3].v < StreamOut(p)[2].v

\* C6 (determinism): two calls of process, on two instances or on one, that
\* start from equal filter_state with equal input buffers end with equal
\* output buffers and equal filter_state.
C6_Deterministic ==
    \A p \in Inst : \A q \in Inst :
        \A j \in 1..Len(hist[p]) : \A k \in 1..Len(hist[q]) :
            (hist[p][j].s0 = hist[q][k].s0 /\ hist[p][j].in = hist[q][k].in)
                => /\ hist[p][j].out = hist[q][k].out
                   /\ hist[p][j].s1 = hist[q][k].s1

\* both instances have processed the same buffer from the same non-zero
\* state while the other was in the middle of a call of its own
C6_Witness ==
    /\ Len(hist[1]) = 2
    /\ Len(hist[2]) = 1
    /\ pc[2] = "loop"
    /\ i[2] = 1
    /\ call_s0[2] = hist[1][2].s0
    /\ call_in[2] = hist[1][2].in
    /\ data[2] = hist[1][2].out
    /\ ~IsZero(call_s0[2])

\* C8 (persistence and frame): filter_state is 0.0 after new() and is
\* carried unchanged from the end of one process call to the start of the
\* next, through a call on an empty buffer, and through get_buffer_ptr;
\* a call makes one process_sample step per element; a loop step changes
\* only filter_state and one element of its own instance's buffer, whose
\* length stays the same.
C8_Frame ==
    /\ [](\A p \in Inst :
            /\ Len(hist[p]) >= 1 => hist[p][1].s0 = Zero
            /\ \A j \in 1..Len(hist[p]) :
                 /\ j > 1 => hist[p][j].s0 = hist[p][j - 1].s1
                 /\ hist[p][j].steps = Len(hist[p][j].in)
                 /\ Len(hist[p][j].out) = Len(hist[p][j].in)
                 /\ hist[p][j].in = <<>> => hist[p][j].s1 = hist[p][j].s0
            /\ pc[p] = "idle" =>
                 filter_state[p] = IF hist[p] = <<>> THEN Zero
                                   ELSE hist[p][Len(hist[p])].s1)
    /\ [][\A p \in Inst :
            /\ pc'[p] # pc[p] =>
                 /\ filter_state'[p] = filter_state[p]
                 /\ pc[p] = "loop" => data'[p] = data[p]
            /\ (ptr'[p] = "null" /\ ptr[p] # "null") =>
                 UNCHANGED <<filter_state, pc, data, i, steps, call_in,
                             call_s0, hist>>
            /\ LoopStep(p) =>
                 /\ Len(data'[p]) = Len(data[p])
                 /\ \A n \in 1..Len(data[p]) :
                      n # i[p] + 1 => data'[p][n] = data[p][n]
                 /\ steps'[p] = steps[p] + 1
                 /\ \A q \in Inst \ {p} :
                      /\ filter_state'[q] = filter_state[q]
                      /\ data'[q] = data[q]
                 /\ UNCHANGED <<pc, call_in, call_s0, hist, ptr>>]_vars

\* a non-zero state carried through an empty call and a get_buffer_ptr call
\* into a third call
C8_Witness ==
    \E p \in Inst :
        /\ Len(hist[p]) = 2
        /\ hist[p][2].in = <<>>
        /\ ~IsZero(hist[p][1].s1)
        /\ pc[p] = "loop"
        /\ i[p] = 1
        /\ Len(data[p]) = 2
        /\ ptr[p] = "unset"

\* C9 (termination): a call of process makes one step per element, never
\* more, and returns after exactly N steps on a buffer of length N,
\* whatever the samples (non-finite ones included) and the filter_state.
C9_Terminates ==
    /\ [](\A p \in Inst : steps[p] = i[p] /\ i[p] <= Len(data[p]))
    /\ \A p \in Inst :
         (pc[p] = "loop") ~>
            (/\ pc[p] = "idle"
             /\ Len(hist[p]) >= 1
             /\ hist[p][Len(hist[p])].in = call_in[p]
             /\ hist[p][Len(hist[p])].steps = Len(call_in[p]))

\* a call on a three-element buffer holding NaN and an infinity has returned
C9_Witness ==
    \E p \in Inst :
        /\ pc[p] = "idle"
        /\ Len(hist[p]) = 1
        /\ hist[p][1].in = <<Num(MaxFinite), Inf(-1), NaN>>
        /\ hist[p][1].steps = 3

====
